---- MODULE Spec2Model ----
(***************************************************************************)
(* Model of backend/main.py (DealFlow-AI): the /match, /email and /health  *)
(* handlers and the helpers they call.                                     *)
(*                                                                         *)
(* Representation.                                                         *)
(*  - A Python str is a sequence of one-character strings, so that         *)
(*    lower(), split() and join() are computed and not assumed.            *)
(*  - A float is an exact rational [n |-> numerator, d |-> denominator]    *)
(*    with d > 0; comparisons cross-multiply.  Rounding of IEEE doubles is *)
(*    not modelled.                                                        *)
(*  - The weights and the threshold are held in tenths (0.7 is 7).         *)
(*  - An embedding is a two-dimensional integer vector with an integer     *)
(*    norm, so that its cosine similarities are rationals.                 *)
(***************************************************************************)
EXTENDS Integers, Sequences, FiniteSets, TLC

VARIABLES GEMINI_API_KEY, MIN_MATCH_SCORE, signals_json, request, response,
          provider_calls, n_requests

vars == <<GEMINI_API_KEY, MIN_MATCH_SCORE, signals_json, request, response,
          provider_calls, n_requests>>

(***************************************************************************)
(* Bounds of the model.                                                    *)
(***************************************************************************)
MaxKeywords == 2
MaxSmall == 2
MaxSignals == 11
MaxRequests == 2

(***************************************************************************)
(* Configuration (main.py lines 21-23), in tenths.                         *)
(***************************************************************************)
SEMANTIC_WEIGHT == 7
KEYWORD_WEIGHT == 3
WeightUnit == 10
DefaultMinMatchScore == 5
TopN == 10

(***************************************************************************)
(* Strings.                                                                *)
(***************************************************************************)
Whitespace == {" ", "\t"}

LowerChar(c) ==
  CASE c = "A" -> "a"
    [] c = "B" -> "b"
    [] OTHER -> c

UpperChar(c) ==
  CASE c = "a" -> "A"
    [] c = "b" -> "B"
    [] OTHER -> c

\* str.lower()
lower(s) == [i \in 1..Len(s) |-> LowerChar(s[i])]

RECURSIVE split_from(_, _, _)
\* str.split() with no argument: the maximal runs of non-whitespace
\* characters, in order; cur is the token being read.
split_from(s, i, cur) ==
  IF i > Len(s)
    THEN IF cur = <<>> THEN <<>> ELSE <<cur>>
    ELSE IF s[i] \in Whitespace
           THEN IF cur = <<>>
                  THEN split_from(s, i + 1, <<>>)
                  ELSE <<cur>> \o split_from(s, i + 1, <<>>)
           ELSE split_from(s, i + 1, Append(cur, s[i]))

split(s) == split_from(s, 1, <<>>)

RECURSIVE join(_)
\* " ".join(parts)
join(parts) ==
  IF parts = <<>> THEN <<>>
  ELSE IF Len(parts) = 1 THEN parts[1]
  ELSE parts[1] \o <<" ">> \o join(Tail(parts))

\* set(tokens)
set(tokens) == {tokens[i] : i \in 1..Len(tokens)}

RECURSIVE strip_left(_)
strip_left(s) ==
  IF s # <<>> /\ s[1] \in Whitespace THEN strip_left(Tail(s)) ELSE s

RECURSIVE strip_right(_)
strip_right(s) ==
  IF s # <<>> /\ s[Len(s)] \in Whitespace
    THEN strip_right(SubSeq(s, 1, Len(s) - 1))
    ELSE s

\* str.strip()
strip(s) == strip_right(strip_left(s))

(***************************************************************************)
(* Rationals.                                                              *)
(***************************************************************************)
Rat(n, d) == [n |-> n, d |-> d]
RatGeq(a, b) == a.n * b.d >= b.n * a.d
RatGt(a, b) == a.n * b.d > b.n * a.d
RatEq(a, b) == a.n * b.d = b.n * a.d
RatAdd(a, b) == Rat(a.n * b.d + b.n * a.d, a.d * b.d)
RatMul(a, b) == Rat(a.n * b.n, a.d * b.d)

(***************************************************************************)
(* calculate_keyword_overlap (lines 61-69).                                *)
(***************************************************************************)
calculate_keyword_overlap_no_lower(startup_desc, signal_keywords) ==
  LET startup_words == set(split(lower(startup_desc)))
      keyword_words == set(split(join(signal_keywords)))
      matches == startup_words \cap keyword_words
  IN IF keyword_words = {}
       THEN Rat(0, 1)
       ELSE Rat(Cardinality(matches), Cardinality(keyword_words))

calculate_keyword_overlap(startup_desc, signal_keywords) ==
  LET startup_words == set(split(lower(startup_desc)))
      keyword_words == set(split(lower(join(signal_keywords))))
      matches == startup_words \cap keyword_words
  IN IF keyword_words = {}
       THEN Rat(0, 1)
       ELSE Rat(Cardinality(matches), Cardinality(keyword_words))

(***************************************************************************)
(* Embeddings and cosine similarity (sklearn), lines 133-136.              *)
(***************************************************************************)
Dot(u, v) == u[1] * v[1] + u[2] * v[2]

\* Euclidean norm; the vectors of the model have integer norms.
Norm(u) == CHOOSE n \in 0..Dot(u, u) : n * n = Dot(u, u)

cosine_similarity(u, v) == Rat(Dot(u, v), Norm(u) * Norm(v))

\* The embedding provider (genai.embed_content, lines 53-58) is an external
\* collaborator; it is modelled as a fixed deterministic function of the text.
EmbeddingTable == << <<1, 0>>, <<3, 4>>, <<0, 1>>, <<4, 3>>, <<-1, 0>> >>

CharCode(c) ==
  CASE c = "a" -> 1
    [] c = "A" -> 2
    [] c = "b" -> 3
    [] c = "B" -> 4
    [] c = " " -> 5
    [] c = "\t" -> 6
    [] OTHER -> 7

RECURSIVE TextCode(_)
TextCode(text) ==
  IF text = <<>> THEN 0 ELSE CharCode(text[1]) + TextCode(Tail(text))

embed_content(text) ==
  EmbeddingTable[(TextCode(text) % Len(EmbeddingTable)) + 1]

\* get_embedding (lines 50-58): raises HTTPException(500) without a key.
get_embedding_unchecked(text) ==
  [raised |-> FALSE, status |-> 200, detail |-> "",
   embedding |-> embed_content(text), calls |-> 1]

get_embedding(text) ==
  IF ~GEMINI_API_KEY
    THEN [raised |-> TRUE, status |-> 500, detail |-> "GOOGLE_API_KEY missing",
          embedding |-> <<>>, calls |-> 0]
    ELSE [raised |-> FALSE, status |-> 200, detail |-> "",
          embedding |-> embed_content(text), calls |-> 1]

(***************************************************************************)
(* generate_match_reasoning (lines 72-109).  The text-generation           *)
(* collaborator answers with a fixed text; the prompt does not change it.  *)
(***************************************************************************)
generate_content == <<" ", "o", "k", "\t">>

generate_match_reasoning_unchecked(startup_desc, signal, score) ==
  [text |-> strip(generate_content), calls |-> 1]

generate_match_reasoning(startup_desc, signal, score) ==
  IF ~GEMINI_API_KEY
    THEN [text |-> <<>>, calls |-> 0]
    ELSE [text |-> strip(generate_content), calls |-> 1]

(***************************************************************************)
(* The signals file (lines 15-16, 43-47).  A signal's missing 'category',  *)
(* 'title', 'description' or 'keywords' reads as '' or [] (signal.get), so *)
(* the record holds the value read; an 'embedding' that is missing, null   *)
(* or [] is falsy at line 129 and is held as <<>>.                         *)
(***************************************************************************)
Signal(category, title, description, keywords, embedding) ==
  [category |-> category, title |-> title, description |-> description,
   keywords |-> keywords, embedding |-> embedding]

PoolSeq ==
  << Signal(<<>>, <<"a">>, <<>>, << <<"a">> >>, <<>>),
     Signal(<<"b">>, <<"A">>, <<>>, << <<"A", " ", "b">> >>, <<3, 4>>),
     Signal(<<>>, <<"b">>, <<"a">>, <<>>, <<1, 0>>),
     Signal(<<>>, <<>>, <<>>, << <<"B">>, <<"a">> >>, <<>>),
     Signal(<<"a">>, <<"a">>, <<"a">>, << <<"b">> >>, <<-1, 0>>),
     Signal(<<>>, <<"B">>, <<>>, << <<"a">>, <<" ">> >>, <<0, 1>>) >>

Pool == {PoolSeq[i] : i \in 1..Len(PoolSeq)}

RECURSIVE SeqsUpTo(_, _)
\* every sequence over S of length at most n
SeqsUpTo(S, n) ==
  IF n = 0 THEN {<<>>}
  ELSE LET shorter == SeqsUpTo(S, n - 1)
       IN shorter \cup {Append(q, x) : q \in shorter, x \in S}

\* a long collection (TopN signals or more): len signals, walking the pool from start by stride
Pattern(len, start, stride) ==
  [i \in 1..len |-> PoolSeq[((start + stride * (i - 1)) % Len(PoolSeq)) + 1]]

Datasets ==
  SeqsUpTo(Pool, MaxSmall)
    \cup {Pattern(len, start, stride) :
            len \in TopN..MaxSignals,
            start \in 0..(Len(PoolSeq) - 1),
            stride \in {0, 1}}

load_signals == IF ~signals_json.exists THEN <<>> ELSE signals_json.content

(***************************************************************************)
(* match_startup (lines 117-160).                                          *)
(***************************************************************************)
\* line 127
signal_text(signal) ==
  signal.category \o <<" ">> \o signal.title \o <<" ">> \o signal.description

\* line 143: semantic * SEMANTIC_WEIGHT + keyword * KEYWORD_WEIGHT
final_score(semantic_score, keyword_score) ==
  RatAdd(RatMul(semantic_score, Rat(SEMANTIC_WEIGHT, WeightUnit)),
         RatMul(keyword_score, Rat(KEYWORD_WEIGHT, WeightUnit)))

\* line 145: final_score >= MIN_MATCH_SCORE, the threshold being min_score tenths
meets_threshold_strict(score, min_score) == RatGt(score, Rat(min_score, WeightUnit))

meets_threshold_swapped(score, min_score) == RatGeq(Rat(min_score, WeightUnit), score)

meets_threshold(score, min_score) == RatGeq(score, Rat(min_score, WeightUnit))

\* lines 127-143 for the signal at position idx: the embedding it ends up
\* carrying, whether the provider was asked for it, and its final score.
\* get_embedding cannot raise here: line 123 has raised already without a key.
score_signal(signal, idx, startup_description, startup_embedding) ==
  LET cached == signal.embedding
      miss == cached = <<>>
      signal_embedding ==
        IF miss THEN get_embedding(signal_text(signal)).embedding ELSE cached
      semantic_score == cosine_similarity(startup_embedding, signal_embedding)
      keyword_score ==
        calculate_keyword_overlap(lower(startup_description), signal.keywords)
  IN [signal |-> [signal EXCEPT !.embedding = signal_embedding],
      idx |-> idx,
      asked |-> miss,
      score |-> final_score(semantic_score, keyword_score)]

\* lines 127-157, one pass of the loop body: acc holds the matches
\* appended so far, the positions whose embedding was requested from the
\* provider, and the number of text-generation calls.  idx is the signal's
\* position in the loaded collection; the code does not store it, it is kept
\* for the audit.
loop_body(acc, s, startup_description, min_score) ==
  IF meets_threshold(s.score, min_score)
    THEN LET reasoning ==
               generate_match_reasoning(startup_description, s.signal, s.score)
         IN [matches |->
               Append(acc.matches,
                      [signal |-> s.signal, idx |-> s.idx, score |-> s.score,
                       reasoning |-> reasoning.text]),
             asked |-> IF s.asked THEN acc.asked \cup {s.idx} ELSE acc.asked,
             generate_calls |-> acc.generate_calls + reasoning.calls]
    ELSE [matches |-> acc.matches,
          asked |-> IF s.asked THEN acc.asked \cup {s.idx} ELSE acc.asked,
          generate_calls |-> acc.generate_calls]

RECURSIVE match_loop(_, _, _, _, _, _)
\* line 126: for signal in signals, from position i on
match_loop(signals, i, startup_description, startup_embedding, min_score, acc) ==
  IF i > Len(signals)
    THEN acc
    ELSE match_loop(signals, i + 1, startup_description, startup_embedding,
                    min_score,
                    loop_body(acc,
                              score_signal(signals[i], i, startup_description,
                                           startup_embedding),
                              startup_description, min_score))

\* line 124: matches = []
NoMatches == [matches |-> <<>>, asked |-> {}, generate_calls |-> 0]

RECURSIVE insert_desc_unstable(_, _)
insert_desc_unstable(sorted, m) ==
  IF sorted = <<>> THEN <<m>>
  ELSE IF RatGt(sorted[1].score, m.score)
         THEN <<sorted[1]>> \o insert_desc_unstable(Tail(sorted), m)
         ELSE <<m>> \o sorted

\* One insertion of list.sort(key=score, reverse=True): m goes after every
\* element whose score is greater than or equal to its own.
RECURSIVE insert_desc(_, _)
insert_desc(sorted, m) ==
  IF sorted = <<>> THEN <<m>>
  ELSE IF RatGeq(sorted[1].score, m.score)
         THEN <<sorted[1]>> \o insert_desc(Tail(sorted), m)
         ELSE <<m>> \o sorted

RECURSIVE sort_desc(_)
\* line 159: a stable sort by descending score
sort_desc(matches) ==
  IF matches = <<>> THEN <<>>
  ELSE insert_desc(sort_desc(SubSeq(matches, 1, Len(matches) - 1)),
                   matches[Len(matches)])

\* line 160: matches[:10]
truncate_off_by_one(matches) ==
  SubSeq(matches, 1, IF Len(matches) < TopN + 1 THEN Len(matches) ELSE TopN + 1)

truncate(matches) ==
  SubSeq(matches, 1, IF Len(matches) < TopN THEN Len(matches) ELSE TopN)

\* lines 159-160 and the answer of a request that raised nothing
match_response(e, loop) ==
  [op |-> "match", status |-> 200, detail |-> "",
   matches |-> truncate(sort_desc(loop.matches)),
   asked |-> loop.asked,
   embed_calls |-> e.calls + Cardinality(loop.asked),
   generate_calls |-> loop.generate_calls]

\* The handler without the early return of lines 120-121.
match_startup_no_early_return(startup_description, min_score) ==
  LET signals == load_signals
      e == get_embedding(startup_description)
  IN IF e.raised
       THEN [op |-> "match", status |-> e.status, detail |-> e.detail,
             asked |-> {}, embed_calls |-> 0, generate_calls |-> 0]
       ELSE match_response(e, match_loop(signals, 1, startup_description,
                                         e.embedding, min_score, NoMatches))

\* The whole handler under a threshold of min_score tenths: the HTTP answer,
\* the positions whose embedding the provider was asked for, and the number
\* of collaborator calls made.
match_startup(startup_description, min_score) ==
  LET signals == load_signals
      e == get_embedding(startup_description)
  IN IF signals = <<>>
       THEN [op |-> "match", status |-> 200, detail |-> "",
             matches |-> <<>>, asked |-> {}, embed_calls |-> 0,
             generate_calls |-> 0]
     ELSE IF e.raised
       THEN [op |-> "match", status |-> e.status, detail |-> e.detail,
             asked |-> {}, embed_calls |-> 0, generate_calls |-> 0]
       ELSE match_response(e, match_loop(signals, 1, startup_description,
                                         e.embedding, min_score, NoMatches))

(***************************************************************************)
(* generate_email (lines 163-225).  request.signal is a dict of the        *)
(* request, not a record of the signals file: 'stakeholders' and 'title'   *)
(* may be missing (present = FALSE) or present with a value.               *)
(***************************************************************************)
Field(present, value) == [present |-> present, value |-> value]

\* signal.get(key, default)
get(field, default) == IF field.present THEN field.value ELSE default

\* line 175, the recipient written into the prompt
prompt_recipient(signal) ==
  IF get(signal.stakeholders, <<>>) # <<>>
    THEN get(signal.stakeholders, <<"City Official">>)[1]
    ELSE "City Official"

generate_email(req) ==
  LET signal == req.signal
      stakeholders == get(signal.stakeholders, <<"City Official">>)
  IN IF ~GEMINI_API_KEY
       THEN [op |-> "email", status |-> 500, detail |-> "GOOGLE_API_KEY missing",
             generate_calls |-> 0]
     ELSE IF stakeholders = <<>>
       \* line 222: [][0] raises IndexError after the generation call; the
       \* framework answers the unhandled exception with a 500.
       THEN [op |-> "email", status |-> 500, detail |-> "IndexError",
             prompt_to |-> prompt_recipient(signal), generate_calls |-> 1]
       ELSE [op |-> "email", status |-> 200, detail |-> "",
             subject |-> <<"Re: ", get(signal.title, "Opportunity"),
                           " - Partnership Opportunity">>,
             to |-> stakeholders[1],
             body |-> strip(generate_content),
             preview_note |-> "This is a preview. Review and customize before sending.",
             prompt_to |-> prompt_recipient(signal), generate_calls |-> 1]

\* lines 112-114
health == [op |-> "health", status |-> 200, body |-> "ok"]

(***************************************************************************)
(* Inputs.                                                                 *)
(***************************************************************************)
Descriptions ==
  { <<>>, <<"a">>, <<"A", " ", "b">>, <<"b", "\t", "B", " ">>, <<"c">> }

Thresholds == {0, DefaultMinMatchScore, SEMANTIC_WEIGHT}

StakeholderFields ==
  { Field(FALSE, <<>>), Field(TRUE, <<>>), Field(TRUE, <<"Clerk">>),
    Field(TRUE, <<"Mayor", "Clerk">>) }

TitleFields == { Field(FALSE, ""), Field(TRUE, "Transit") }

EmailRequests ==
  { [op |-> "email", startup_description |-> <<"a">>,
     signal |-> [stakeholders |-> st, title |-> t], match_score |-> SEMANTIC_WEIGHT]
      : st \in StakeholderFields, t \in TitleFields }

ReasoningSignals == {PoolSeq[1], PoolSeq[2]}

(***************************************************************************)
(* The process: configuration and the signals file are fixed when it       *)
(* starts; each action is one request handled to completion.               *)
(***************************************************************************)
Init ==
  /\ GEMINI_API_KEY \in BOOLEAN
  /\ MIN_MATCH_SCORE \in Thresholds
  /\ signals_json \in
       {[exists |-> FALSE, content |-> <<>>]}
         \cup {[exists |-> TRUE, content |-> c] : c \in Datasets}
  /\ request = [op |-> "none"]
  /\ response = [op |-> "none"]
  /\ provider_calls = [i \in 1..Len(load_signals) |-> 0]
  /\ n_requests = 0

Handled ==
  /\ n_requests < MaxRequests
  /\ n_requests' = n_requests + 1
  /\ UNCHANGED <<GEMINI_API_KEY, MIN_MATCH_SCORE, signals_json>>

\* POST /match.  load_signals() parses the file anew on every request, so the
\* embeddings attached at line 131 live in the request's own list only and
\* the file is left as it was.
MatchAnswered(r) ==
  /\ response' = r
  /\ provider_calls' =
       [i \in DOMAIN provider_calls |->
          IF i \in r.asked THEN provider_calls[i] + 1 ELSE provider_calls[i]]

MatchStartup ==
  \E d \in Descriptions :
    /\ Handled
    /\ request' = [op |-> "match", startup_description |-> d]
    /\ MatchAnswered(match_startup(d, MIN_MATCH_SCORE))

\* POST /email
GenerateEmail ==
  \E req \in EmailRequests :
    /\ Handled
    /\ request' = req
    /\ response' = generate_email(req)
    /\ UNCHANGED provider_calls

\* GET /health
Health ==
  /\ Handled
  /\ request' = [op |-> "health"]
  /\ response' = health
  /\ UNCHANGED provider_calls

\* A direct call of generate_match_reasoning, as a unit test makes it.
ReasoningAnswered(r) ==
  response' = [op |-> "reasoning", status |-> 200, text |-> r.text,
               generate_calls |-> r.calls]

GenerateMatchReasoning ==
  \E signal \in ReasoningSignals :
    /\ Handled
    /\ request' = [op |-> "reasoning", startup_description |-> <<"a">>,
                   signal |-> signal]
    /\ ReasoningAnswered(generate_match_reasoning(<<"a">>, signal, Rat(1, 1)))
    /\ UNCHANGED provider_calls

Next == MatchStartup \/ GenerateEmail \/ Health \/ GenerateMatchReasoning

Spec == Init /\ [][Next]_vars

(***************************************************************************)
(* calculate_keyword_overlap called on its own: Init draws the arguments,  *)
(* the one action applies the function.                                    *)
(***************************************************************************)
OverlapDescriptions ==
  { <<>>, <<" ">>, <<"a">>, <<"A">>, <<"b">>, <<"a", " ", "b">>,
    <<"B", "\t", "A">>, <<" ", "a", "b", " ">>, <<"a", " ", " ", "a">>,
    <<"b", "a">>, <<"A", "b", " ", "c">> }

OverlapKeywords ==
  { <<>>, <<" ">>, <<"a">>, <<"A">>, <<"B">>, <<"a", " ", "b">>,
    <<"b", " ", "A">>, <<"a", "b">>, <<"c", "\t">> }

InitOverlap ==
  /\ GEMINI_API_KEY = FALSE
  /\ MIN_MATCH_SCORE = DefaultMinMatchScore
  /\ signals_json = [exists |-> FALSE, content |-> <<>>]
  /\ request \in
       {[op |-> "overlap", startup_desc |-> d, signal_keywords |-> k] :
          d \in OverlapDescriptions, k \in SeqsUpTo(OverlapKeywords, MaxKeywords)}
  /\ response = [op |-> "none"]
  /\ provider_calls = <<>>
  /\ n_requests = 0

CalculateKeywordOverlap ==
  /\ response.op = "none"
  /\ response' =
       [op |-> "overlap",
        result |-> calculate_keyword_overlap(request.startup_desc,
                                             request.signal_keywords)]
  /\ UNCHANGED <<GEMINI_API_KEY, MIN_MATCH_SCORE, signals_json, request,
                 provider_calls, n_requests>>

NextOverlap == CalculateKeywordOverlap

SpecOverlap == InitOverlap /\ [][NextOverlap]_vars

(***************************************************************************)
(* Definitions used to state the properties.                               *)
(***************************************************************************)
upper(s) == [i \in 1..Len(s) |-> UpperChar(s[i])]

Reverse(q) == [i \in 1..Len(q) |-> q[Len(q) + 1 - i]]

\* s[i..j] is a maximal run of non-whitespace characters of s
IsToken(s, i, j) ==
  /\ i <= j
  /\ \A k \in i..j : s[k] \notin Whitespace
  /\ i = 1 \/ s[i - 1] \in Whitespace
  /\ j = Len(s) \/ s[j + 1] \in Whitespace

\* the lower-cased whitespace-separated words of s, stated without split()
WordsOf(s) ==
  {lower(SubSeq(s, p[1], p[2])) :
     p \in {q \in (1..Len(s)) \X (1..Len(s)) : IsToken(s, q[1], q[2])}}

KeywordWordsOf(keywords) == UNION {WordsOf(keywords[i]) : i \in 1..Len(keywords)}

OverlapAsClaimed(D, K, KW, result) ==
  /\ K = <<>> => result = Rat(0, 1)
  /\ KW = {} => result = Rat(0, 1)
  /\ KW # {} =>
       /\ result.d > 0
       /\ RatEq(result, Rat(Cardinality(WordsOf(D) \cap KW), Cardinality(KW)))
       /\ RatGeq(result, Rat(0, 1))
       /\ RatGeq(Rat(1, 1), result)
  /\ RatEq(calculate_keyword_overlap(upper(D), [i \in 1..Len(K) |-> upper(K[i])]),
           result)
  /\ RatEq(calculate_keyword_overlap(lower(D), [i \in 1..Len(K) |-> lower(K[i])]),
           result)
  /\ RatEq(calculate_keyword_overlap(join(Reverse(split(D))), Reverse(K)), result)

\* C9: calculate_keyword_overlap(D, K) is 0.0 when the lower-cased
\* whitespace-separated word set of K is empty (so when K is empty), and is
\* otherwise |words(D) /\ words(K)| / |words(K)|, a value in [0,1]; changing
\* the letter case of D and K, or the order of their tokens, leaves it as is.
Inv_C9 ==
  response.op = "overlap" =>
    OverlapAsClaimed(request.startup_desc, request.signal_keywords,
                     KeywordWordsOf(request.signal_keywords), response.result)

\* a partial overlap, found across letter case, on a keyword that holds
\* two words, with a description whose words stand in the other order
Witness_C9 ==
  /\ response.op = "overlap"
  /\ request.startup_desc = <<"B", "\t", "A">>
  /\ request.signal_keywords = << <<"a", " ", "b">>, <<"c", "\t">> >>
  /\ response.result = Rat(2, 3)

(***************************************************************************)
(* The match operation, audited against the request and the signals file.  *)
(***************************************************************************)
MatchOK == response.op = "match" /\ response.status = 200

Threshold == Rat(MIN_MATCH_SCORE, WeightUnit)

\* the embedding a signal is scored with: its own, or else the provider's
SignalEmbedding(signal) ==
  IF signal.embedding # <<>> THEN signal.embedding
  ELSE embed_content(signal_text(signal))

\* semantic * SEMANTIC_WEIGHT + keyword * KEYWORD_WEIGHT, written out
ClaimedScore(signal, description) ==
  RatAdd(RatMul(cosine_similarity(embed_content(description),
                                  SignalEmbedding(signal)),
                Rat(SEMANTIC_WEIGHT, WeightUnit)),
         RatMul(calculate_keyword_overlap(description, signal.keywords),
                Rat(KEYWORD_WEIGHT, WeightUnit)))

Scores(description) ==
  [i \in 1..Len(load_signals) |-> ClaimedScore(load_signals[i], description)]

Meeting(scores) == {i \in DOMAIN scores : RatGeq(scores[i], Threshold)}

Returned(ms) == {ms[k].idx : k \in 1..Len(ms)}

\* each returned match is the signal at position idx of the collection
FromCollection(ms, signals) ==
  /\ \A k \in 1..Len(ms) :
       /\ ms[k].idx \in 1..Len(signals)
       /\ [ms[k].signal EXCEPT !.embedding = signals[ms[k].idx].embedding]
            = signals[ms[k].idx]
  /\ \A j, k \in 1..Len(ms) : j # k => ms[j].idx # ms[k].idx

StableDescending(ms) ==
  \A i, j \in 1..Len(ms) :
    i < j =>
      /\ RatGeq(ms[i].score, ms[j].score)
      /\ RatEq(ms[i].score, ms[j].score) => ms[i].idx < ms[j].idx

\* C1: in the list match_startup returns, a match with a strictly higher
\* score stands before one with a lower score, and matches with equal scores
\* stand in the order their signals have in the loaded collection.
Inv_C1 ==
  MatchOK =>
    /\ FromCollection(response.matches, load_signals)
    /\ StableDescending(response.matches)

\* the sort moved a later signal before an earlier one, and kept a tie
Witness_C1 ==
  /\ MatchOK
  /\ \E i, j \in 1..Len(response.matches) :
       /\ i < j
       /\ RatGt(response.matches[i].score, response.matches[j].score)
       /\ response.matches[i].idx > response.matches[j].idx
  /\ \E i, j \in 1..Len(response.matches) :
       /\ i < j
       /\ RatEq(response.matches[i].score, response.matches[j].score)
       /\ response.matches[i].signal # response.matches[j].signal

\* every signal left out that meets the threshold ranks after every match
FirstOfRanking(ms, scores, meeting) ==
  \A k \in 1..Len(ms) :
    \A j \in meeting \ Returned(ms) :
      \/ RatGt(ms[k].score, scores[j])
      \/ RatEq(ms[k].score, scores[j]) /\ ms[k].idx < j

SizeAsClaimed(ms, scores, meeting) ==
  /\ Len(ms) <= TopN
  /\ Len(ms) <= Cardinality(meeting)
  /\ Returned(ms) \subseteq meeting
  /\ Cardinality(meeting) > TopN =>
       /\ Len(ms) = TopN
       /\ FirstOfRanking(ms, scores, meeting)

\* C2: the list returned has at most 10 matches and at most as many as there
\* are signals meeting the threshold; when more than 10 meet it, the 10
\* returned are the first 10 of the descending-score ordering.
Inv_C2 ==
  MatchOK =>
    /\ FromCollection(response.matches, load_signals)
    /\ SizeAsClaimed(response.matches, Scores(request.startup_description),
                     Meeting(Scores(request.startup_description)))

\* more than 10 signals meet the threshold, with different scores among them
Witness_C2 ==
  /\ MatchOK
  /\ Len(response.matches) = TopN
  /\ Cardinality(Meeting(Scores(request.startup_description))) > TopN
  /\ RatGt(response.matches[1].score, response.matches[TopN].score)

ScoresAsClaimed(ms, scores, meeting) ==
  /\ \A k \in 1..Len(ms) :
       /\ RatEq(ms[k].score, scores[ms[k].idx])
       /\ RatGeq(ms[k].score, Threshold)
  /\ \A i \in DOMAIN scores : i \notin meeting => i \notin Returned(ms)
  /\ Cardinality(meeting) <= TopN => meeting \subseteq Returned(ms)

\* C3: every match returned has the score semantic * SEMANTIC_WEIGHT +
\* keyword * KEYWORD_WEIGHT, not clamped, and it is at least MIN_MATCH_SCORE
\* (equality included); a signal scoring below the threshold is not returned
\* and raises no error; when at most 10 signals meet the threshold all of
\* them are returned.
Inv_C3 ==
  /\ (response.op = "match" /\ GEMINI_API_KEY) => response.status = 200
  /\ MatchOK =>
       /\ FromCollection(response.matches, load_signals)
       /\ ScoresAsClaimed(response.matches, Scores(request.startup_description),
                          Meeting(Scores(request.startup_description)))

HasNegative(scores) == \E i \in DOMAIN scores : RatGt(Rat(0, 1), scores[i])

\* a match whose score equals the threshold is returned while a signal with
\* a negative score is left out
Witness_C3 ==
  /\ MatchOK
  /\ \E k \in 1..Len(response.matches) :
       RatEq(response.matches[k].score, Threshold)
  /\ HasNegative(Scores(request.startup_description))
  /\ Len(response.matches) < Len(load_signals)

(***************************************************************************)
(* Credentials, the empty collection, the provider calls.                  *)
(***************************************************************************)
ConfigurationError ==
  response.status = 500 /\ response.detail = "GOOGLE_API_KEY missing"

\* C4 as stated: without a credential the match operation raises the
\* configuration error (HTTP 500 'GOOGLE_API_KEY missing') and never returns
\* an empty match list.
Orig_C4 ==
  (response.op = "match" /\ ~GEMINI_API_KEY) => ConfigurationError

\* C4, amended: without a credential the match operation raises the
\* configuration error whenever the loaded signal collection is not empty;
\* with an empty collection it returns the empty list, the credential never
\* being looked at.
Inv_C4 ==
  (response.op = "match" /\ ~GEMINI_API_KEY) =>
    IF load_signals = <<>>
      THEN response.status = 200 /\ response.matches = <<>>
      ELSE ConfigurationError /\ response.embed_calls = 0

\* a match request over a non-empty collection was refused for the credential
Witness_C4 ==
  /\ response.op = "match"
  /\ ~GEMINI_API_KEY
  /\ Len(load_signals) > 0
  /\ ConfigurationError

\* C5: with a credential, generate_email completes and its 'to' is
\* 'City Official' when the signal's stakeholders are empty, and the first
\* stakeholder otherwise.
Orig_C5 ==
  (response.op = "email" /\ GEMINI_API_KEY) =>
    /\ response.status = 200
    /\ response.to =
         IF get(request.signal.stakeholders, <<>>) = <<>>
           THEN "City Official"
           ELSE request.signal.stakeholders.value[1]

\* C6: over the process lifetime the provider is asked for a signal's
\* embedding at most once, and never for a signal whose embedding the
\* collection already holds, whose embedding is returned as it was.
Orig_C6 ==
  /\ \A i \in DOMAIN provider_calls :
       /\ provider_calls[i] <= 1
       /\ load_signals[i].embedding # <<>> => provider_calls[i] = 0
  /\ MatchOK =>
       \A k \in 1..Len(response.matches) :
         load_signals[response.matches[k].idx].embedding # <<>> =>
           response.matches[k].signal = load_signals[response.matches[k].idx]

AllReasoningEmpty(ms) == \A k \in 1..Len(ms) : ms[k].reasoning = <<>>

Inv_C8 ==
  (response.op = "match" /\ load_signals = <<>>) =>
    /\ response.status = 200
    /\ response.matches = <<>>
    /\ response.embed_calls = 0
    /\ response.generate_calls = 0
    /\ \A i \in DOMAIN provider_calls : provider_calls[i] = 0

\* a match request was answered with no signals file and no credential
Witness_C8 ==
  /\ response.op = "match"
  /\ ~signals_json.exists
  /\ ~GEMINI_API_KEY
  /\ request.startup_description # <<>>
  /\ response.matches = <<>>

\* thresholds the result is compared under, in tenths
AuditThresholds == Thresholds \cup {0 - KEYWORD_WEIGHT, WeightUnit + 1}

CountUnder(description, min_score) ==
  Len(match_startup(description, min_score).matches)

Monotonic(description, count) ==
  \A t \in AuditThresholds :
    /\ t >= MIN_MATCH_SCORE => CountUnder(description, t) <= count
    /\ t <= MIN_MATCH_SCORE => CountUnder(description, t) >= count

\* C10: for the same description, collection and collaborator answers, a
\* higher MIN_MATCH_SCORE never returns more matches: for t1 <= t2 the
\* result under t2 is at most as long as the result under t1.
Inv_C10 ==
  MatchOK => Monotonic(request.startup_description, Len(response.matches))

FewerUnder(description, count) ==
  \E t \in Thresholds :
    /\ t > MIN_MATCH_SCORE
    /\ CountUnder(description, t) < count
    /\ CountUnder(description, t) > 0

\* a higher threshold returns fewer matches, though still some
Witness_C10 ==
  /\ MatchOK
  /\ FewerUnder(request.startup_description, Len(response.matches))

====
